---- MODULE Spec2Model ----
(***************************************************************************)
(* Model of the clappers command line argument parser (src/src/lib.rs).   *)
(*                                                                         *)
(* A String is a sequence of one-character strings, so that               *)
(* starts_with('-'), split_off(1) and split('|') are computed character   *)
(* by character.  A HashMap is a function, a HashSet is a set, a Vec is a *)
(* sequence.                                                               *)
(***************************************************************************)
EXTENDS Integers, Sequences, FiniteSets, TLC

\* ------------------------------------------------------------------ bounds
MaxCalls == 2        \* registration calls chained before parse()
MaxArgs == 3         \* command line arguments after argv[0]
MaxLongCalls == 1    \* registration calls, in the runs with longer command lines
MaxLongArgs == 4     \* command line arguments, in the runs with longer command lines

\* ------------------------------------------------------------ input sets
\* the arg spec strings a caller registers: "h|o", "o", ""
SpecStrings == { <<"h", "|", "o">>, <<"o">>, <<>> }

\* the Vec<&str> a registration call is given: one spec, or "o" then "h|o"
ArgSpecs == { << s >> : s \in SpecStrings } \cup { << <<"o">>, <<"h", "|", "o">> >> }

\* the command line arguments: a  b  -h  --o  --
Tokens == { <<"a">>, <<"b">>, <<"-", "h">>, <<"-", "-", "o">>, <<"-", "-">> }

\* argv[0], the program's invocation path
ProgramName == <<"p">>

\* every alias string a query may be called with
QueryNames == { <<>>, <<"h">>, <<"o">>, <<"x">>, <<"-", "h">> }

RECURSIVE SeqsUpTo(_, _)
SeqsUpTo(S, n) ==
    IF n = 0 THEN { <<>> }
    ELSE LET shorter == SeqsUpTo(S, n - 1)
         IN  shorter \cup { Append(s, x) : s \in { t \in shorter : Len(t) = n - 1 }, x \in S }

\* ------------------------------------------------------------------ state
VARIABLES
    config,   \* Config: flags, singles, multiples, each a ConfigType
    registered, \* history: config as the caller built it, when parse() was called
    values,   \* Values: flags (set), singles (map), multiples (map to Vec)
    argv,     \* env::args(): argv[1] is the program name
    pos,      \* number of elements the Peekable iterator `args` has yielded
    next,     \* the normalized option name the running iteration looked up
    calls,    \* registration calls made so far
    pc        \* "config", "outer", "inner", "done"

vars == <<config, registered, values, argv, pos, next, calls, pc>>

\* ------------------------------------------------------------ std helpers
EmptyMap == [k \in {} |-> <<>>]

\* HashMap::insert
MapInsert(m, k, v) == [x \in (DOMAIN m) \cup {k} |-> IF x = k THEN v ELSE m[x]]

\* mutant of StartsWithDash: no token counts as dash-prefixed
StartsWithDash_Never(s) == FALSE

\* str::starts_with('-')
StartsWithDash(s) == Len(s) > 0 /\ s[1] = "-"

\* String::split_off(1): the part of the string from index 1 on
SplitOff1(s) == SubSeq(s, 2, Len(s))

\* str::split('|').collect(): always at least one piece
RECURSIVE SplitFrom(_, _, _)
SplitFrom(s, i, cur) ==
    IF i > Len(s) THEN << cur >>
    ELSE IF s[i] = "|" THEN << cur >> \o SplitFrom(s, i + 1, <<>>)
    ELSE SplitFrom(s, i + 1, Append(cur, s[i]))

Split(s) == SplitFrom(s, 1, <<>>)

\* ------------------------------------------------------------- ConfigType
ConfigTypeNew == [name |-> {}, aliases |-> EmptyMap]

\* mutant of InsertAliases: an alias already in the table keeps its mapping
RECURSIVE InsertAliases_KeepExisting(_, _, _)
InsertAliases_KeepExisting(aliases, arguments, i) ==
    IF i > Len(arguments) THEN aliases
    ELSE IF arguments[i] \in DOMAIN aliases
         THEN InsertAliases_KeepExisting(aliases, arguments, i + 1)
         ELSE InsertAliases_KeepExisting(MapInsert(aliases, arguments[i], arguments[1]),
                                         arguments, i + 1)

\* the inner `for argument in &arguments` loop
RECURSIVE InsertAliases(_, _, _)
InsertAliases(aliases, arguments, i) ==
    IF i > Len(arguments) THEN aliases
    ELSE InsertAliases(MapInsert(aliases, arguments[i], arguments[1]), arguments, i + 1)

\* one iteration of `for arg_spec in arg_specs`
AddSpec(ct, arg_spec) ==
    LET arguments == Split(arg_spec)
    IN  IF Len(arguments) = 0 THEN ct
        ELSE [name    |-> ct.name \cup { arguments[1] },
              aliases |-> InsertAliases(ct.aliases, arguments, 1)]

RECURSIVE AddToConfigFrom(_, _, _)
AddToConfigFrom(ct, arg_specs, i) ==
    IF i > Len(arg_specs) THEN ct
    ELSE AddToConfigFrom(AddSpec(ct, arg_specs[i]), arg_specs, i + 1)

AddToConfig(ct, arg_specs) == AddToConfigFrom(ct, arg_specs, 1)

\* ---------------------------------------------------------------- queries
\* mutant of get_flag: an unresolved alias defaults to true
get_flag_DefaultTrue(argument) ==
    IF argument \in DOMAIN config.flags.aliases
    THEN config.flags.aliases[argument] \in values.flags
    ELSE TRUE

get_flag(argument) ==
    IF argument \in DOMAIN config.flags.aliases
    THEN config.flags.aliases[argument] \in values.flags
    ELSE FALSE

\* mutant of get_single: the value is looked up under the alias, not the name
get_single_ByAlias(argument) ==
    IF argument \in DOMAIN config.singles.aliases /\ argument \in DOMAIN values.singles
    THEN values.singles[argument]
    ELSE <<>>

get_single(argument) ==
    IF argument \in DOMAIN config.singles.aliases
    THEN LET s == config.singles.aliases[argument]
         IN  IF s \in DOMAIN values.singles THEN values.singles[s] ELSE <<>>
    ELSE <<>>

get_multiple(argument) ==
    IF argument \in DOMAIN config.multiples.aliases
    THEN LET m == config.multiples.aliases[argument]
         IN  IF m \in DOMAIN values.multiples THEN values.multiples[m] ELSE <<>>
    ELSE <<>>

get_leftovers == get_multiple(<<>>)

\* ------------------------------------------------------------------- Init
build ==
    /\ config = [flags |-> ConfigTypeNew, singles |-> ConfigTypeNew, multiples |-> ConfigTypeNew]
    /\ values = [flags |-> {}, singles |-> EmptyMap, multiples |-> EmptyMap]

Init ==
    /\ build
    /\ registered = config
    /\ argv = << ProgramName >>
    /\ pos = 0
    /\ next = <<>>
    /\ calls = 0
    /\ pc = "config"

\* ----------------------------------------------------------- registration
\* add_flags(arg_specs), as one of at most `limit` chained registration calls
AddFlagsOf(limit, specs) ==
    /\ pc = "config"
    /\ calls < limit
    /\ \E arg_specs \in specs :
         config' = [config EXCEPT !.flags = AddToConfig(@, arg_specs)]
    /\ calls' = calls + 1
    /\ UNCHANGED <<registered, values, argv, pos, next, pc>>

AddFlags(limit) == AddFlagsOf(limit, ArgSpecs)

\* add_singles(arg_specs)
AddSinglesOf(limit, specs) ==
    /\ pc = "config"
    /\ calls < limit
    /\ \E arg_specs \in specs :
         config' = [config EXCEPT !.singles = AddToConfig(@, arg_specs)]
    /\ calls' = calls + 1
    /\ UNCHANGED <<registered, values, argv, pos, next, pc>>

AddSingles(limit) == AddSinglesOf(limit, ArgSpecs)

\* add_multiples(arg_specs)
AddMultiplesOf(limit, specs) ==
    /\ pc = "config"
    /\ calls < limit
    /\ \E arg_specs \in specs :
         config' = [config EXCEPT !.multiples = AddToConfig(@, arg_specs)]
    /\ calls' = calls + 1
    /\ UNCHANGED <<registered, values, argv, pos, next, pc>>

AddMultiples(limit) == AddMultiplesOf(limit, ArgSpecs)

add_flags     == AddFlags(MaxCalls)
add_singles   == AddSingles(MaxCalls)
add_multiples == AddMultiples(MaxCalls)

\* ------------------------------------------------------------------ parse
\* mutant of SetupLeftovers: the "" name and alias are not inserted
SetupLeftovers_NoAlias(cfg) == cfg

\* the leftovers setup at the head of parse()
SetupLeftovers(cfg) ==
    [cfg EXCEPT !.multiples.name    = @ \cup { <<>> },
                !.multiples.aliases = MapInsert(@, <<>>, <<>>)]

\* mutant of Normalize: every leading dash is stripped
RECURSIVE Normalize_AllDashes(_)
Normalize_AllDashes(tok) ==
    IF StartsWithDash(tok) THEN Normalize_AllDashes(SplitOff1(tok)) ELSE tok

\* the two split_off(1) calls of the dash branch
Normalize(tok) ==
    LET once == SplitOff1(tok)
    IN  IF StartsWithDash(once) THEN SplitOff1(once) ELSE once

\* mutant of Classify: the singles table is looked up before the flags table
Classify_SinglesFirst(cfg, n) ==
    IF n \in DOMAIN cfg.singles.aliases THEN "single"
    ELSE IF n \in DOMAIN cfg.flags.aliases THEN "flag"
    ELSE IF n \in DOMAIN cfg.multiples.aliases THEN "multiple"
    ELSE "none"

\* the if / else if chain over the three alias tables
Classify(cfg, n) ==
    IF n \in DOMAIN cfg.flags.aliases THEN "flag"
    ELSE IF n \in DOMAIN cfg.singles.aliases THEN "single"
    ELSE IF n \in DOMAIN cfg.multiples.aliases THEN "multiple"
    ELSE "none"

\* mutant of PeekIsValue: any following token is taken as a value
PeekIsValue_AnyToken(av, p) == p < Len(av)

\* args.peek() is Some(v) and v does not start with a dash; p elements were yielded
PeekIsValue(av, p) == p < Len(av) /\ ~StartsWithDash(av[p + 1])

\* mutant of InsertFlag: the alias as typed is recorded, not the canonical name
InsertFlag_Alias(cfg, vals, n) ==
    [vals EXCEPT !.flags = @ \cup { n }]

\* self.values.flags.insert(name)
InsertFlag(cfg, vals, n) ==
    [vals EXCEPT !.flags = @ \cup { cfg.flags.aliases[n] }]

\* mutant of InsertSingle: a value already stored is kept (first occurrence wins)
InsertSingle_KeepFirst(cfg, vals, n, v) ==
    IF cfg.singles.aliases[n] \in DOMAIN vals.singles
    THEN vals
    ELSE [vals EXCEPT !.singles = MapInsert(@, cfg.singles.aliases[n], v)]

\* self.values.singles.insert(name, args.next().unwrap())
InsertSingle(cfg, vals, n, v) ==
    [vals EXCEPT !.singles = MapInsert(@, cfg.singles.aliases[n], v)]

\* mutant of EnsureMultiple: the list is replaced by an empty one every time
EnsureMultiple_Reset(vals, name) ==
    [vals EXCEPT !.multiples = MapInsert(@, name, <<>>)]

\* mutant of EnsureMultiple: a missing list is not created
EnsureMultiple_Skip(vals, name) == vals

\* if get_mut(name).is_none() { insert(name, vec![]) }
EnsureMultiple(vals, name) ==
    IF name \in DOMAIN vals.multiples
    THEN vals
    ELSE [vals EXCEPT !.multiples = MapInsert(@, name, <<>>)]

\* mutant of PushMultiple: the value is appended twice
PushMultiple_Twice(cfg, vals, n, v) ==
    [vals EXCEPT !.multiples[cfg.multiples.aliases[n]] = Append(Append(@, v), v)]

\* self.values.multiples.get_mut(name).unwrap().push(args.next().unwrap())
PushMultiple(cfg, vals, n, v) ==
    [vals EXCEPT !.multiples[cfg.multiples.aliases[n]] = Append(@, v)]

\* mutant of PushLeftover: the token is put at the front of the "" list
PushLeftover_Front(vals, tok) ==
    [EnsureMultiple(vals, <<>>) EXCEPT !.multiples[<<>>] = << tok >> \o @]

\* mutant of PushLeftover: the "" list is created but the token is not pushed
PushLeftover_Dropped(vals, tok) == EnsureMultiple(vals, <<>>)

\* the else branch of the loop body: push the token to the "" list
PushLeftover(vals, tok) ==
    [EnsureMultiple(vals, <<>>) EXCEPT !.multiples[<<>>] = Append(@, tok)]

\* the inner `while let Some(value) = args.peek()` loop, run to its end
RECURSIVE InnerLoop(_, _, _, _, _)
InnerLoop(cfg, av, p, vals, n) ==
    IF PeekIsValue(av, p)
    THEN InnerLoop(cfg, av, p + 1, PushMultiple(cfg, vals, n, av[p + 1]), n)
    ELSE [pos |-> p, values |-> vals]

\* one iteration of `while let Some(mut next) = args.next()`; p < Len(av)
OuterIteration(cfg, av, p, vals) ==
    LET tok == av[p + 1]
        n   == Normalize(tok)
        k   == Classify(cfg, n)
    IN  IF StartsWithDash(tok)
        THEN CASE k = "flag" ->
                    [pos |-> p + 1, values |-> InsertFlag(cfg, vals, n)]
               [] k = "single" ->
                    IF PeekIsValue(av, p + 1)
                    THEN [pos |-> p + 2, values |-> InsertSingle(cfg, vals, n, av[p + 2])]
                    ELSE [pos |-> p + 1, values |-> vals]
               [] k = "multiple" ->
                    InnerLoop(cfg, av, p + 1,
                              EnsureMultiple(vals, cfg.multiples.aliases[n]), n)
               [] OTHER ->
                    [pos |-> p + 1, values |-> vals]
        ELSE [pos |-> p + 1, values |-> PushLeftover(vals, tok)]

\* the whole outer loop, from p yielded elements to the end of the arguments
RECURSIVE ParseLoop(_, _, _, _)
ParseLoop(cfg, av, p, vals) ==
    IF p >= Len(av) THEN vals
    ELSE LET r == OuterIteration(cfg, av, p, vals)
         IN  ParseLoop(cfg, av, r.pos, r.values)

\* env::args(): the program name followed by at most n arguments
CommandLinesOf(toks, n) == { << ProgramName >> \o input : input \in SeqsUpTo(toks, n) }

CommandLines(n) == CommandLinesOf(Tokens, n)

\* parse(), whole: setup, discard argv[0], loop until args.next() is None;
\* the process was started with one of the command lines `lines`
Parse(lines) ==
    /\ pc = "config"
    /\ \E av \in lines :
         /\ argv' = av
         /\ registered' = config
         /\ config' = SetupLeftovers(config)
         /\ values' = ParseLoop(SetupLeftovers(config), av, 1, values)
         /\ pos' = Len(av)
    /\ pc' = "done"
    /\ UNCHANGED <<next, calls>>

parse == Parse(CommandLines(MaxArgs))

Next ==
    \/ add_flags
    \/ add_singles
    \/ add_multiples
    \/ parse

Spec == Init /\ [][Next]_vars

\* ------------------------------- fewer registration calls, longer command lines
long_add_flags     == AddFlags(MaxLongCalls)
long_add_singles   == AddSingles(MaxLongCalls)
long_add_multiples == AddMultiples(MaxLongCalls)
long_parse         == Parse(CommandLines(MaxLongArgs))

LongNext ==
    \/ long_add_flags
    \/ long_add_singles
    \/ long_add_multiples
    \/ long_parse

LongSpec == Init /\ [][LongNext]_vars

\* ------------------------------------------------- parse, one step at a time
MaxStepArgs == 3    \* command line arguments after argv[0], stepwise parse

HasNext == pos < Len(argv)
Peek    == argv[pos + 1]

\* Option::unwrap() on None: the thread panics where it stands
Panic ==
    /\ pc' = "panic"
    /\ UNCHANGED <<values, pos>>

\* parse() up to the loop: leftovers setup, env::args(), discard argv[0]
\* the process was started with one of the command lines `lines`
ParseBeginOf(lines) ==
    /\ pc = "config"
    /\ registered' = config
    /\ config' = SetupLeftovers(config)
    /\ \E av \in lines : argv' = av
    /\ pos' = 1
    /\ pc' = "outer"
    /\ UNCHANGED <<values, next, calls>>

ParseBegin == ParseBeginOf(CommandLines(MaxStepArgs))

\* `while let Some(next) = args.next()` yields None
ParseEnd ==
    /\ pc = "outer"
    /\ ~HasNext
    /\ pc' = "done"
    /\ UNCHANGED <<config, registered, values, argv, pos, next, calls>>

\* iteration: dash-prefixed token found in the flag alias table
OuterFlag ==
    /\ pc = "outer"
    /\ HasNext
    /\ StartsWithDash(Peek)
    /\ Classify(config, Normalize(Peek)) = "flag"
    /\ next' = Normalize(Peek)
    /\ values' = InsertFlag(config, values, Normalize(Peek))
    /\ pos' = pos + 1
    /\ UNCHANGED <<config, registered, argv, calls, pc>>

\* mutant of OuterSingle: an occurrence without a value stores ""
OuterSingle_EmptyOnNoValue ==
    /\ pc = "outer"
    /\ HasNext
    /\ StartsWithDash(Peek)
    /\ Classify(config, Normalize(Peek)) = "single"
    /\ next' = Normalize(Peek)
    /\ IF PeekIsValue(argv, pos + 1)
       THEN /\ values' = InsertSingle(config, values, Normalize(Peek), argv[pos + 2])
            /\ pos' = pos + 2
       ELSE /\ values' = InsertSingle(config, values, Normalize(Peek), <<>>)
            /\ pos' = pos + 1
    /\ UNCHANGED <<config, registered, argv, calls, pc>>

\* iteration: dash-prefixed token found in the single alias table
OuterSingle ==
    /\ pc = "outer"
    /\ HasNext
    /\ StartsWithDash(Peek)
    /\ Classify(config, Normalize(Peek)) = "single"
    /\ next' = Normalize(Peek)
    /\ IF PeekIsValue(argv, pos + 1)
       THEN IF pos + 2 <= Len(argv)
            THEN /\ values' = InsertSingle(config, values, Normalize(Peek), argv[pos + 2])
                 /\ pos' = pos + 2
                 /\ pc' = pc
            ELSE Panic   \* args.next().unwrap() on None
       ELSE /\ values' = values
            /\ pos' = pos + 1
            /\ pc' = pc
    /\ UNCHANGED <<config, registered, argv, calls>>

\* iteration: dash-prefixed token found in the multiple alias table,
\* up to the inner `while let Some(value) = args.peek()`
OuterMultiple ==
    /\ pc = "outer"
    /\ HasNext
    /\ StartsWithDash(Peek)
    /\ Classify(config, Normalize(Peek)) = "multiple"
    /\ next' = Normalize(Peek)
    /\ values' = EnsureMultiple(values, config.multiples.aliases[Normalize(Peek)])
    /\ pos' = pos + 1
    /\ pc' = "inner"
    /\ UNCHANGED <<config, registered, argv, calls>>

\* inner loop iteration: the peeked value has no dash, push args.next()
InnerPush ==
    /\ pc = "inner"
    /\ PeekIsValue(argv, pos)
    /\ IF HasNext /\ config.multiples.aliases[next] \in DOMAIN values.multiples
       THEN /\ values' = PushMultiple(config, values, next, Peek)
            /\ pos' = pos + 1
            /\ pc' = pc
       ELSE Panic   \* get_mut(name).unwrap() or args.next().unwrap() on None
    /\ UNCHANGED <<config, registered, argv, next, calls>>

\* mutant of InnerBreak: the dash-prefixed token that ends the run is consumed
InnerBreak_Consume ==
    /\ pc = "inner"
    /\ ~PeekIsValue(argv, pos)
    /\ pc' = "outer"
    /\ pos' = IF HasNext THEN pos + 1 ELSE pos
    /\ UNCHANGED <<config, registered, values, argv, next, calls>>

\* inner loop ends: peek() is None, or the peeked value is dash-prefixed
InnerBreak ==
    /\ pc = "inner"
    /\ ~PeekIsValue(argv, pos)
    /\ pc' = "outer"
    /\ UNCHANGED <<config, registered, values, argv, pos, next, calls>>

\* mutant of OuterUnknown: the unmatched token is pushed to the "" list
OuterUnknown_AsLeftover ==
    /\ pc = "outer"
    /\ HasNext
    /\ StartsWithDash(Peek)
    /\ Classify(config, Normalize(Peek)) = "none"
    /\ next' = Normalize(Peek)
    /\ values' = PushLeftover(values, Peek)
    /\ pos' = pos + 1
    /\ UNCHANGED <<config, registered, argv, calls, pc>>

\* mutant of OuterUnknown: the unmatched token is left in the stream
OuterUnknown_NoAdvance ==
    /\ pc = "outer"
    /\ HasNext
    /\ StartsWithDash(Peek)
    /\ Classify(config, Normalize(Peek)) = "none"
    /\ next' = Normalize(Peek)
    /\ UNCHANGED <<config, registered, values, argv, pos, calls, pc>>

\* iteration: dash-prefixed token found in no alias table
OuterUnknown ==
    /\ pc = "outer"
    /\ HasNext
    /\ StartsWithDash(Peek)
    /\ Classify(config, Normalize(Peek)) = "none"
    /\ next' = Normalize(Peek)
    /\ pos' = pos + 1
    /\ UNCHANGED <<config, registered, values, argv, calls, pc>>

\* iteration: token without a leading dash goes to the "" list
OuterLeftover ==
    /\ pc = "outer"
    /\ HasNext
    /\ ~StartsWithDash(Peek)
    /\ IF <<>> \in DOMAIN EnsureMultiple(values, <<>>).multiples
       THEN /\ values' = PushLeftover(values, Peek)
            /\ pos' = pos + 1
            /\ pc' = pc
       ELSE Panic   \* get_mut("").unwrap() on None
    /\ UNCHANGED <<config, registered, argv, next, calls>>

StepNext ==
    \/ add_flags
    \/ add_singles
    \/ add_multiples
    \/ ParseBegin
    \/ OuterFlag
    \/ OuterSingle
    \/ OuterMultiple
    \/ InnerPush
    \/ InnerBreak
    \/ OuterUnknown
    \/ OuterLeftover
    \/ ParseEnd

StepSpec == Init /\ [][StepNext]_vars

\* ===================================================================== claims
\* The claims are stated over the finished parse: the command line argv, the
\* alias tables and the query results.  The definitions below read the command
\* line on their own, without the parser's operators.

Done == pc = "done"

\* indexes of the command line arguments (argv[1] is the program name)
ArgIdx == 2..Len(argv)

\* the token starts with a dash
IsOption(tok) == tok # <<>> /\ Head(tok) = "-"

\* the name an option token is looked up by: one dash off, a second one if present
OptionName(tok) ==
    IF Len(tok) >= 2 /\ tok[2] = "-" THEN SubSeq(tok, 3, Len(tok)) ELSE Tail(tok)

Elems(s) == { s[i] : i \in 1..Len(s) }

Max(S) == CHOOSE x \in S : \A y \in S : y <= x

\* the elements of av at the indexes in S, in order, from index j on
RECURSIVE Pick(_, _, _)
Pick(av, S, j) ==
    IF j > Len(av) THEN <<>>
    ELSE (IF j \in S THEN << av[j] >> ELSE <<>>) \o Pick(av, S, j + 1)

FlagAliases     == DOMAIN config.flags.aliases
SingleAliases   == DOMAIN config.singles.aliases
MultipleAliases == DOMAIN config.multiples.aliases

\* argv[i] is an option token of the flag with canonical name c
FlagToken(i, c) ==
    /\ IsOption(argv[i])
    /\ OptionName(argv[i]) \in FlagAliases
    /\ config.flags.aliases[OptionName(argv[i])] = c

\* argv[i] is an option token of the single with canonical name c
SingleToken(i, c) ==
    /\ IsOption(argv[i])
    /\ OptionName(argv[i]) \in SingleAliases
    /\ config.singles.aliases[OptionName(argv[i])] = c

\* argv[i] is an option token of the multiple with canonical name c
MultipleToken(i, c) ==
    /\ IsOption(argv[i])
    /\ OptionName(argv[i]) \in MultipleAliases
    /\ config.multiples.aliases[OptionName(argv[i])] = c

\* the option token argv[i] is also an alias of a kind looked up earlier
ShadowedByFlag(i)   == OptionName(argv[i]) \in FlagAliases
ShadowedBySingle(i) == OptionName(argv[i]) \in SingleAliases

\* argv[i] is followed by a token without a leading dash
HasValue(i) == i < Len(argv) /\ ~IsOption(argv[i + 1])

\* ------------------------------------------------------------------------ C1
\* C1: after parse, for every alias a in the flag alias table, get_flag(a) is
\* true exactly when the command line holds a dash-prefixed token whose
\* normalized name maps, in the flag alias table, to the canonical name of a.
C1_FlagIffSupplied ==
    Done => \A a \in FlagAliases :
              get_flag(a) <=> \E i \in ArgIdx : FlagToken(i, config.flags.aliases[a])

\* flag "h|o" and the command line [-h]: both aliases answer true
C1_Witness ==
    /\ Done
    /\ argv = << ProgramName, <<"-", "h">> >>
    /\ FlagAliases = { <<"h">>, <<"o">> }
    /\ get_flag(<<"h">>) /\ get_flag(<<"o">>)

\* ------------------------------------------------------------------------ C2
\* the occurrences of the single c that no flag alias shadows
SingleOccurrences(c) == { i \in ArgIdx : SingleToken(i, c) /\ ~ShadowedByFlag(i) }

\* C2: for a single not shadowed by a flag alias whose option token occurs once:
\* followed by a token v without a leading dash, get_single of every alias of it
\* returns v; followed by a dash-prefixed token, get_single returns "".
C2_SingleTakesNextValue ==
    Done => \A a \in SingleAliases :
              \A i \in SingleOccurrences(config.singles.aliases[a]) :
                 SingleOccurrences(config.singles.aliases[a]) = { i } =>
                    /\ HasValue(i) => get_single(a) = argv[i + 1]
                    /\ (i < Len(argv) /\ IsOption(argv[i + 1])) => get_single(a) = <<>>

\* single "h|o" and the command line [--o, a]: both aliases return a
C2_Witness ==
    /\ Done
    /\ argv = << ProgramName, <<"-", "-", "o">>, <<"a">> >>
    /\ SingleAliases = { <<"h">>, <<"o">> }
    /\ FlagAliases = {}
    /\ get_single(<<"h">>) = <<"a">> /\ get_single(<<"o">>) = <<"a">>

\* ------------------------------------------------------------------------ C3
\* C3 as claimed: when a declared single occurs more than once, get_single
\* returns the value supplied with its last occurrence ("" when that occurrence
\* has none).
C3_LastOccurrenceWins ==
    Done => \A a \in SingleAliases :
              LET occ == SingleOccurrences(config.singles.aliases[a])
              IN  Cardinality(occ) > 1 =>
                     get_single(a) = IF HasValue(Max(occ)) THEN argv[Max(occ) + 1] ELSE <<>>

\* C3 amended: when a single not shadowed by a flag alias occurs more than
\* once, get_single returns the value of the last occurrence that is followed by
\* a token without a leading dash, and "" when no occurrence is.
C3_LastValuedOccurrenceWins ==
    Done => \A a \in SingleAliases :
              LET occ    == SingleOccurrences(config.singles.aliases[a])
                  valued == { i \in occ : HasValue(i) }
              IN  Cardinality(occ) > 1 =>
                     get_single(a) = IF valued = {} THEN <<>> ELSE argv[Max(valued) + 1]

\* single "o" and the command line [--o, a, --o, b]: b overwrites a
C3_Witness ==
    /\ Done
    /\ argv = << ProgramName, <<"-", "-", "o">>, <<"a">>, <<"-", "-", "o">>, <<"b">> >>
    /\ FlagAliases = {}
    /\ <<"o">> \in SingleAliases
    /\ get_single(<<"o">>) = <<"b">>

\* ------------------------------------------------------------------------ C4
\* the aliases the caller registered, per kind and in any kind
DeclaredMultipleAliases == DOMAIN registered.multiples.aliases

RegisteredAliases ==
    DOMAIN registered.flags.aliases \cup DOMAIN registered.singles.aliases
        \cup DOMAIN registered.multiples.aliases

\* argv[i] is an option token of the multiple c that the parser handles as a
\* multiple: no flag alias and no single alias shadows it
MultipleHead(i, c) ==
    MultipleToken(i, c) /\ ~ShadowedByFlag(i) /\ ~ShadowedBySingle(i)

\* argv[j] lies in the run of tokens without a leading dash that immediately
\* follows one of the option tokens at the indexes `heads`
InRunOf(j, heads) ==
    /\ ~IsOption(argv[j])
    /\ \E i \in heads : i < j /\ \A k \in (i + 1)..j : ~IsOption(argv[k])

\* C4 as claimed: for a declared multiple, get_multiple returns, in order, the
\* runs of tokens without a leading dash that immediately follow the
\* occurrences of its option tokens.
C4_MultipleIsItsRuns ==
    Done => \A a \in DeclaredMultipleAliases :
              LET heads == { i \in ArgIdx : MultipleToken(i, config.multiples.aliases[a]) }
              IN  get_multiple(a) = Pick(argv, { j \in ArgIdx : InRunOf(j, heads) }, 2)

\* C4 amended: the same, for a multiple whose canonical name is not the empty
\* string, counting the occurrences of its option tokens that no flag alias and
\* no single alias shadows.
C4_NamedMultipleIsItsRuns ==
    Done => \A a \in MultipleAliases :
              LET c     == config.multiples.aliases[a]
                  heads == { i \in ArgIdx : MultipleHead(i, c) }
              IN  c # <<>> =>
                     get_multiple(a) = Pick(argv, { j \in ArgIdx : InRunOf(j, heads) }, 2)

\* multiple "h|o" and the command line [-h, a, --o, b]: the second run appends
C4_Witness ==
    /\ Done
    /\ argv = << ProgramName, <<"-", "h">>, <<"a">>, <<"-", "-", "o">>, <<"b">> >>
    /\ FlagAliases = {} /\ SingleAliases = {}
    /\ get_multiple(<<"o">>) = << <<"a">>, <<"b">> >>
    /\ get_multiple(<<"h">>) = << <<"a">>, <<"b">> >>

\* ------------------------------------------------------------------------ C5
\* argv[j] is the value a single option token took
SingleValueIdx(j) ==
    /\ j > 2
    /\ ~IsOption(argv[j])
    /\ IsOption(argv[j - 1])
    /\ OptionName(argv[j - 1]) \in SingleAliases
    /\ ~ShadowedByFlag(j - 1)

\* the occurrences of the multiples the caller declared
DeclaredMultipleHeads ==
    { i \in ArgIdx : /\ OptionName(argv[i]) \in DeclaredMultipleAliases
                     /\ MultipleHead(i, config.multiples.aliases[OptionName(argv[i])]) }

\* the occurrences of the multiples whose canonical name is not ""
NamedMultipleHeads ==
    { i \in ArgIdx : \E a \in MultipleAliases :
                        /\ config.multiples.aliases[a] # <<>>
                        /\ MultipleHead(i, config.multiples.aliases[a]) }

C6_UnknownAliasDefaults ==
    Done => \A q \in QueryNames \ RegisteredAliases :
              /\ ~get_flag(q)
              /\ get_single(q) = <<>>
              /\ get_multiple(q) = <<>>

\* C6 amended: for every alias the caller never registered, get_flag is false
\* and get_single is ""; get_multiple is the empty list unless the alias is the
\* empty string, for which it returns the leftovers.
C6_UnknownNonEmptyAliasDefaults ==
    Done => \A q \in QueryNames \ RegisteredAliases :
              /\ ~get_flag(q)
              /\ get_single(q) = <<>>
              /\ q # <<>> => get_multiple(q) = <<>>

\* flag, value and leftover recorded while x and o were never registered
C6_Witness ==
    /\ Done
    /\ <<"x">> \notin RegisteredAliases /\ <<"o">> \notin RegisteredAliases
    /\ values.flags # {}
    /\ get_leftovers # <<>>
    /\ ~get_flag(<<"o">>) /\ get_multiple(<<"x">>) = <<>>

\* ------------------------------------------------------------------------ C7
\* C7: after registration and parse, two aliases that resolve to the same
\* canonical name in a kind's alias table get the same answer from that kind's
\* query.
C7_AliasEquivalence ==
    Done =>
      /\ \A a, b \in FlagAliases :
           config.flags.aliases[a] = config.flags.aliases[b] => get_flag(a) = get_flag(b)
      /\ \A a, b \in SingleAliases :
           config.singles.aliases[a] = config.singles.aliases[b] => get_single(a) = get_single(b)
      /\ \A a, b \in MultipleAliases :
           config.multiples.aliases[a] = config.multiples.aliases[b]
              => get_multiple(a) = get_multiple(b)

\* single "h|o" with a value stored: both aliases return it
C7_Witness ==
    /\ Done
    /\ { <<"h">>, <<"o">> } \subseteq SingleAliases
    /\ config.singles.aliases[<<"h">>] = config.singles.aliases[<<"o">>]
    /\ get_single(<<"h">>) = <<"b">>
    /\ get_single(<<"o">>) = <<"b">>

\* ------------------------------------------------------------------------ C8
\* C8: every value (token without a leading dash) that follows a `--` token on
\* the command line is returned by get_leftovers.
C8_ValuesAfterDoubleDashAreLeftovers ==
    Done => \A i \in ArgIdx :
              argv[i] = <<"-", "-">> =>
                 \A j \in (i + 1)..Len(argv) :
                    ~IsOption(argv[j]) => argv[j] \in Elems(get_leftovers)

\* ------------------------------------------------------------------------ C9
\* C9: a declared multiple (canonical name not "") whose option token occurs on
\* the command line has at least one value; get_multiple returns the empty list
\* only when the option was not supplied.
C9_SuppliedMultipleHasAValue ==
    Done => \A a \in DeclaredMultipleAliases :
              LET c == config.multiples.aliases[a]
              IN  (c # <<>> /\ \E i \in ArgIdx : MultipleHead(i, c))
                     => Len(get_multiple(a)) >= 1

\* ----------------------------------------------------------------------- C10
\* argv[j] is an option token of a flag, single or multiple the caller declared
RecognizedOption(j) == IsOption(argv[j]) /\ OptionName(argv[j]) \in RegisteredAliases

\* argv[j] is a value a declared single or a declared multiple consumed
ConsumedValue(j) == SingleValueIdx(j) \/ InRunOf(j, DeclaredMultipleHeads)

\* C10 as claimed: every token that is neither the option token of a declared
\* flag, single or multiple nor a value one of them consumed is in the list
\* get_leftovers returns.
C10_UnrecognizedTokensAreLeftovers ==
    Done => \A j \in ArgIdx :
              (~RecognizedOption(j) /\ ~ConsumedValue(j))
                 => argv[j] \in Elems(get_leftovers)

\* C10 amended: every token without a leading dash that no declared single or
\* multiple consumed is in the list get_leftovers returns; a dash-prefixed
\* token that is no declared option token is dropped and is not in that list.
C10_UnconsumedValuesAreLeftovers ==
    Done => \A j \in ArgIdx :
              /\ (~IsOption(argv[j]) /\ ~ConsumedValue(j))
                    => argv[j] \in Elems(get_leftovers)
              /\ (IsOption(argv[j]) /\ ~RecognizedOption(j))
                    => argv[j] \notin Elems(get_leftovers)

\* nothing registered, command line [-h, a]: -h is dropped, a is a leftover
C10_Witness ==
    /\ Done
    /\ RegisteredAliases = {}
    /\ argv = << ProgramName, <<"-", "h">>, <<"a">> >>
    /\ get_leftovers = << <<"a">> >>

\* ----------------------------------------------------------------------- C11
\* the values that follow the occurrences of the single c handled as a single
SingleValuesOf(c) == { argv[j + 1] : j \in { k \in SingleOccurrences(c) : HasValue(k) } }

\* no occurrence of an option token of the multiple c is handled as a multiple
NoMultipleHead(c) == \A k \in ArgIdx : ~MultipleHead(k, c)

\* C11: an option token whose alias is registered under several kinds is
\* handled only as the kind looked up first (flags, then singles, then
\* multiples), whatever the order of the registration calls. Flag and single:
\* the flag is set, a following token without a leading dash is a leftover, and
\* get_single is "" unless an unshadowed alias of that single occurs. Flag or
\* single and multiple: get_multiple is [] unless an unshadowed alias of that
\* multiple occurs. Single and multiple: the following value is stored as the
\* single.
C11_KindPriority ==
    Done => \A i \in ArgIdx :
              LET n == OptionName(argv[i])
              IN  IsOption(argv[i]) =>
                    /\ (n \in FlagAliases /\ n \in SingleAliases \cup MultipleAliases) =>
                          /\ get_flag(n)
                          /\ HasValue(i) => argv[i + 1] \in Elems(get_leftovers)
                    /\ (n \in FlagAliases \cap SingleAliases
                           /\ SingleOccurrences(config.singles.aliases[n]) = {}) =>
                          get_single(n) = <<>>
                    /\ (n \in (FlagAliases \cup SingleAliases) \cap MultipleAliases
                           /\ config.multiples.aliases[n] # <<>>
                           /\ NoMultipleHead(config.multiples.aliases[n])) =>
                          get_multiple(n) = <<>>
                    /\ (n \in (SingleAliases \cap MultipleAliases) \ FlagAliases
                           /\ HasValue(i)) =>
                          get_single(n) \in SingleValuesOf(config.singles.aliases[n])

\* "o" registered as a flag and as a single, command line [--o, a]: the flag is
\* set, the single has no value and a is a leftover
C11_Witness ==
    /\ Done
    /\ argv = << ProgramName, <<"-", "-", "o">>, <<"a">> >>
    /\ <<"o">> \in FlagAliases \cap SingleAliases
    /\ get_flag(<<"o">>)
    /\ get_single(<<"o">>) = <<>>
    /\ get_leftovers = << <<"a">> >>

\* ----------------------------------------------------------------------- C12
\* the parse loop is running or has returned
Parsing == pc \in { "outer", "inner", "done" }

\* C12: parse never panics. No unwrap() of the loop meets None: the iterator
\* is never advanced past the last token, inside the inner loop the list of the
\* multiple being filled exists, and once a leftover was pushed the "" list
\* exists.
C12_ParseNeverPanics ==
    /\ pc # "panic"
    /\ Parsing => pos <= Len(argv)
    /\ pc = "inner" =>
          /\ next \in DOMAIN config.multiples.aliases
          /\ config.multiples.aliases[next] \in DOMAIN values.multiples

\* multiple "o", command line [a, --o, b]: the "" list and the list of o were
\* both created and pushed to, and the loop returned
C12_Witness ==
    /\ pc = "done"
    /\ argv = << ProgramName, <<"a">>, <<"-", "-", "o">>, <<"b">> >>
    /\ FlagAliases = {} /\ SingleAliases = {}
    /\ get_multiple(<<"o">>) = << <<"b">> >>
    /\ get_leftovers = << <<"a">> >>

\* ----------------------------------------------------------------------- C14
\* one step of the parse loop
LoopStep ==
    \/ OuterFlag
    \/ OuterSingle
    \/ OuterMultiple
    \/ InnerPush
    \/ InnerBreak
    \/ OuterUnknown
    \/ OuterLeftover
    \/ ParseEnd

\* the runs termination is checked on: one registration call, command lines
\* of a value, a flag-like and a long option token
MaxTermCalls == 1
MaxTermArgs == 3
TermTokens == { <<"a">>, <<"-", "h">>, <<"-", "-", "o">> }

term_add_flags     == AddFlags(MaxTermCalls)
term_add_singles   == AddSingles(MaxTermCalls)
term_add_multiples == AddMultiples(MaxTermCalls)
term_parse_begin   == ParseBeginOf(CommandLinesOf(TermTokens, MaxTermArgs))

TermNext ==
    \/ term_add_flags
    \/ term_add_singles
    \/ term_add_multiples
    \/ term_parse_begin
    \/ LoopStep

\* parse() runs on one thread that keeps executing until it returns
TermSpec == Init /\ [][TermNext]_vars /\ WF_vars(LoopStep)

InLoop == pc \in { "outer", "inner" }

\* C14: parse terminates on every finite command line. Every iteration of the
\* outer loop consumes at least one token, every iteration of the inner loop
\* exactly one, the position in the token stream never moves back, the loop
\* returns exactly when the stream is exhausted, and a running loop eventually
\* returns.
C14_ParseTerminates ==
    /\ [][ (pc = "outer" /\ pc' # "done") => pos' > pos ]_vars
    /\ [][ (pc = "inner" /\ pc' = "inner") => pos' = pos + 1 ]_vars
    /\ [][ InLoop => pos' >= pos ]_vars
    /\ [][ (InLoop /\ pc' = "done") => (pc = "outer" /\ pos = Len(argv)) ]_vars
    /\ [][ (pc = "outer" /\ pos = Len(argv)) => pc' = "done" ]_vars
    /\ InLoop ~> Done

\* multiple "o", command line [--o, a, a]: the inner loop consumed two tokens
\* and the loop returned with the stream exhausted
C14_Witness ==
    /\ Done
    /\ argv = << ProgramName, <<"-", "-", "o">>, <<"a">>, <<"a">> >>
    /\ pos = Len(argv)
    /\ get_multiple(<<"o">>) = << <<"a">>, <<"a">> >>

\* ----------------------------------------------------------------------- C15
\* the runs dash normalization is checked on: aliases registered with and
\* without a leading dash, option tokens with one, two and three dashes
MaxDashCalls == 1
MaxDashArgs == 2
DashSpecStrings == { <<"h">>, <<"-", "h">> }
DashArgSpecs == { << s >> : s \in DashSpecStrings }
DashTokens == { <<"a">>, <<"-", "h">>, <<"-", "-", "h">>, <<"-", "-", "-", "h">> }

dash_add_flags     == AddFlagsOf(MaxDashCalls, DashArgSpecs)
dash_add_singles   == AddSinglesOf(MaxDashCalls, DashArgSpecs)
dash_add_multiples == AddMultiplesOf(MaxDashCalls, DashArgSpecs)
dash_parse         == Parse(CommandLinesOf(DashTokens, MaxDashArgs))

DashNext ==
    \/ dash_add_flags
    \/ dash_add_singles
    \/ dash_add_multiples
    \/ dash_parse

DashSpec == Init /\ [][DashNext]_vars

\* the number of leading dashes of a token
Dashes(tok) == Cardinality({ k \in 1..Len(tok) : \A j \in 1..k : tok[j] = "-" })

OneDash(x) == <<"-">> \o x
TwoDash(x) == <<"-", "-">> \o x

\* a token of more than two dashes, without its first two dashes
ExtraDashName(tok) == SubSeq(tok, 3, Len(tok))

AnyAliases == FlagAliases \cup SingleAliases \cup MultipleAliases

\* the option tokens that are looked up as the alias x
MatchTokens(x) == IF IsOption(x) THEN { TwoDash(x) } ELSE { OneDash(x), TwoDash(x) }

\* some option token on the command line is looked up as an alias of the flag c
FlagSuppliedAs(c) ==
    \E i \in ArgIdx : \E x \in FlagAliases :
       config.flags.aliases[x] = c /\ argv[i] \in MatchTokens(x)

\* nothing but leftovers is recorded
NothingRecorded ==
    /\ values.flags = {}
    /\ DOMAIN values.singles = {}
    /\ DOMAIN values.multiples \subseteq { <<>> }

\* a token is looked up by the name left after one dash and at most one more
\* are stripped: a flag is set exactly by the tokens looked up as its aliases
\* (-name and --name alike), a single or multiple takes the value after them
LookedUpByStrippedName ==
    /\ \A x \in FlagAliases :
          get_flag(x) <=> FlagSuppliedAs(config.flags.aliases[x])
    /\ \A i \in ArgIdx : \A x \in AnyAliases \ FlagAliases :
          (argv[i] \in MatchTokens(x) /\ HasValue(i)) =>
             IF x \in SingleAliases
             THEN get_single(x) \in { argv[j + 1] : j \in { k \in ArgIdx : HasValue(k) } }
             ELSE argv[i + 1] \in Elems(get_multiple(x))

\* C15 as claimed: -name and --name are looked up as the same name; a token
\* with more than two leading dashes keeps the extra dashes in its name, matches
\* no alias, and is dropped with nothing recorded.
C15_ExtraDashesNeverMatch ==
    Done =>
      /\ LookedUpByStrippedName
      /\ \A i \in ArgIdx :
            Dashes(argv[i]) > 2 => ExtraDashName(argv[i]) \notin AnyAliases
      /\ (\A i \in ArgIdx : IsOption(argv[i]) => Dashes(argv[i]) > 2) => NothingRecorded

\* C15 amended: ... a token with more than two leading dashes keeps the extra
\* dashes in its name, so it matches only an alias that was registered with
\* those leading dashes; when no such alias is registered it is dropped with
\* nothing recorded.
C15_ExtraDashesMatchOnlyDashAliases ==
    Done =>
      /\ LookedUpByStrippedName
      /\ (\A i \in ArgIdx :
             IsOption(argv[i]) =>
                (Dashes(argv[i]) > 2 /\ ExtraDashName(argv[i]) \notin AnyAliases))
            => NothingRecorded

\* flag "h" and the command line [---h, --h]: ---h is dropped, --h sets h
C15_Witness ==
    /\ Done
    /\ argv = << ProgramName, <<"-", "-", "-", "h">>, <<"-", "-", "h">> >>
    /\ FlagAliases = { <<"h">> }
    /\ values.flags = { <<"h">> }

\* ----------------------------------------------------------------------- C16
\* the outer loop is about to take argv[pos + 1]
AtToken == pc = "outer" /\ pos < Len(argv)

\* the token the outer loop is about to take is an option token of a single,
\* handled as a single, with no value after it
AtValuelessSingle ==
    /\ AtToken
    /\ IsOption(argv[pos + 1])
    /\ OptionName(argv[pos + 1]) \in SingleAliases \ FlagAliases
    /\ ~HasValue(pos + 1)

\* C16: handling an occurrence of a single's option token that has no value
\* (it is the last token, or the next token is dash-prefixed) records nothing:
\* flags, the stored value of every single, every multiple list and the
\* leftovers are the same after the token as before it, and only that token is
\* taken from the stream.
C16_ValuelessSingleRecordsNothing ==
    [][ AtValuelessSingle => (values' = values /\ pos' = pos + 1 /\ pc' = "outer") ]_vars

\* single "o", command line [--o, a, --o]: the second --o was handled and the
\* value a of the first is still stored
C16_Witness ==
    /\ pc = "outer"
    /\ argv = << ProgramName, <<"-", "-", "o">>, <<"a">>, <<"-", "-", "o">> >>
    /\ pos = 4
    /\ <<"o">> \in SingleAliases \ FlagAliases
    /\ get_single(<<"o">>) = <<"a">>
    /\ get_leftovers = <<>>

\* ----------------------------------------------------------------------- C17
\* the option token argv[i] directly follows a single's option token handled
\* as a single, or ends the value run of a multiple's option token handled as a
\* multiple
Withheld(i) ==
    /\ i > 2
    /\ IsOption(argv[i])
    /\ \/ /\ IsOption(argv[i - 1])
          /\ OptionName(argv[i - 1]) \in SingleAliases \ FlagAliases
       \/ \E h \in 2..(i - 1) :
             /\ IsOption(argv[h])
             /\ OptionName(argv[h]) \in MultipleAliases \ (FlagAliases \cup SingleAliases)
             /\ \A k \in (h + 1)..(i - 1) : ~IsOption(argv[k])

\* the indexes of the option tokens of the single c, handled as a single, that
\* are followed by a value
ValuedOccurrences(c) == { k \in SingleOccurrences(c) : HasValue(k) }

\* C17: lookahead only peeks at a dash-prefixed token. The token that withholds
\* a single's value or ends a multiple's value run stays in the stream: after
\* the single the outer loop stands right before it, the inner loop leaves with
\* it unconsumed and nothing recorded, and it takes effect as an option of its
\* own (a flag is set; a single handled as a single takes the value after it).
C17_DashLookaheadIsNotConsumed ==
    /\ [][ (AtValuelessSingle /\ pos + 1 < Len(argv))
              => (pc' = "outer" /\ pos' = pos + 1) ]_vars
    /\ [][ (pc = "inner" /\ pos < Len(argv) /\ IsOption(argv[pos + 1]))
              => (pc' = "outer" /\ pos' = pos /\ values' = values) ]_vars
    /\ [](Done => \A i \in ArgIdx :
                    LET n == OptionName(argv[i])
                    IN  Withheld(i) =>
                          /\ n \in FlagAliases => get_flag(n)
                          /\ (n \in SingleAliases \ FlagAliases
                                 /\ i = Max(ValuedOccurrences(config.singles.aliases[n]) \cup { i })
                                 /\ HasValue(i))
                                => get_single(n) = argv[i + 1])

\* multiple "h|o" and flag "o", command line [-h, a, --o]: --o ended the run
\* of h and was then handled as the flag
C17_Witness ==
    /\ Done
    /\ argv = << ProgramName, <<"-", "h">>, <<"a">>, <<"-", "-", "o">> >>
    /\ <<"h">> \in MultipleAliases \ (FlagAliases \cup SingleAliases)
    /\ <<"o">> \in FlagAliases
    /\ get_multiple(<<"h">>) = << <<"a">> >>
    /\ get_flag(<<"o">>)
    /\ get_leftovers = <<>>

\* ----------------------------------------------------------------------- C18
\* argv[i] is a dash-prefixed token whose name is in none of the three tables
UnknownOption(i) == IsOption(argv[i]) /\ OptionName(argv[i]) \notin AnyAliases

\* C18: a dash-prefixed token whose name matches no alias in any table is
\* discarded: handling it changes no flag, single value, multiple list or
\* leftover and takes only that token from the stream; it is not in the
\* leftovers, and a token without a leading dash that follows it is.
C18_UnknownOptionIsDiscarded ==
    /\ [][ (AtToken /\ UnknownOption(pos + 1))
              => (values' = values /\ pos' = pos + 1 /\ pc' = "outer") ]_vars
    /\ [](Done => \A i \in ArgIdx :
                    UnknownOption(i) =>
                       /\ argv[i] \notin Elems(get_leftovers)
                       /\ HasValue(i) => argv[i + 1] \in Elems(get_leftovers))

\* single "o" only, command line [-h, a]: -h is dropped, a is a leftover
C18_Witness ==
    /\ Done
    /\ argv = << ProgramName, <<"-", "h">>, <<"a">> >>
    /\ RegisteredAliases = { <<"o">> }
    /\ SingleAliases = { <<"o">> }
    /\ values.flags = {} /\ DOMAIN values.singles = {}
    /\ get_leftovers = << <<"a">> >>

\* ----------------------------------------------------------------------- C19
\* the positions of the separator in a spec string, and the string's ends
Bars(s) == { i \in 1..Len(s) : s[i] = "|" }
Cuts(s) == Bars(s) \cup { 0, Len(s) + 1 }

\* the tokens of a spec string: the pieces between neighbouring cuts
SpecTokens(s) ==
    { SubSeq(s, i + 1, j - 1) :
         <<i, j>> \in { c \in Cuts(s) \X Cuts(s) :
                          c[1] < c[2] /\ \A b \in Bars(s) : ~(c[1] < b /\ b < c[2]) } }

\* the first token of a spec string
FirstToken(s) ==
    LET j == CHOOSE c \in Cuts(s) : c > 0 /\ \A b \in Cuts(s) : b > 0 => c <= b
    IN  SubSeq(s, 1, j - 1)

\* the spec strings of one registration call that contain the alias x
Declaring(arg_specs, x) == { k \in 1..Len(arg_specs) : x \in SpecTokens(arg_specs[k]) }

\* a kind's registry after a registration call, from the one before it
Redeclared(ct, arg_specs) ==
    [name    |-> ct.name \cup { FirstToken(arg_specs[k]) : k \in 1..Len(arg_specs) },
     aliases |-> [x \in DOMAIN ct.aliases
                          \cup UNION { SpecTokens(arg_specs[k]) : k \in 1..Len(arg_specs) } |->
                    IF Declaring(arg_specs, x) = {} THEN ct.aliases[x]
                    ELSE FirstToken(arg_specs[Max(Declaring(arg_specs, x))])]]

Kinds == { "flags", "singles", "multiples" }

\* C19: registration accumulates and overwrites per kind. Every registration
\* call leaves the other kinds alone and, in its own kind, maps each alias of
\* its spec strings to the first token of the last spec string that contains
\* it, keeps the mapping of every other alias, and adds the first tokens to the
\* canonical names; so after any sequence of calls each alias maps to the first
\* token of the most recently registered spec string that contains it.
C19_RegistrationOverwritesPerKind ==
    [][ (pc = "config" /\ calls' = calls + 1) =>
           \E kind \in Kinds : \E arg_specs \in ArgSpecs :
              config' = [config EXCEPT ![kind] = Redeclared(config[kind], arg_specs)] ]_vars

\* flags "h|o" then flags "o": o was redeclared and maps to o, h still maps to h
C19_Witness ==
    /\ pc = "config"
    /\ calls = 2
    /\ config.flags.name = { <<"h">>, <<"o">> }
    /\ config.flags.aliases[<<"h">>] = <<"h">>
    /\ config.flags.aliases[<<"o">>] = <<"o">>
    /\ SingleAliases = {} /\ MultipleAliases = {}

\* ----------------------------------------------------------------------- C20
\* the arg_specs vector that holds the empty spec string only
EmptySpecOnly == << <<>> >>

\* C20: registering the empty spec string "" under any kind leaves that kind's
\* canonical-name set and alias table unchanged.
C20_EmptySpecIsIgnored ==
    pc = "config" =>
       \A kind \in Kinds : AddToConfig(config[kind], EmptySpecOnly) = config[kind]

\* ----------------------------------------------------------------------- C21
DoubleDash == <<"-", "-">>

\* the caller registered no empty alias under any kind
NoEmptyAliasDeclared == <<>> \notin RegisteredAliases

\* argv[j] is an option token that takes effect as an option: a flag is set; a
\* single handled as a single whose last valued occurrence it is has its value
ClassifiedAsOption(j) ==
    LET n == OptionName(argv[j])
    IN  /\ n \in FlagAliases => get_flag(n)
        /\ (n \in SingleAliases \ FlagAliases
               /\ HasValue(j)
               /\ j = Max(ValuedOccurrences(config.singles.aliases[n]) \cup { j }))
              => get_single(n) = argv[j + 1]

\* the `--` token is recorded nowhere, and the options after it still count
DoubleDashLeavesNoTrace(i) ==
    /\ <<>> \notin values.flags
    /\ <<>> \notin DOMAIN values.singles
    /\ argv[i] \notin Elems(get_leftovers)
    /\ \A j \in (i + 1)..Len(argv) : IsOption(argv[j]) => ClassifiedAsOption(j)

InputTokens == { argv[i] : i \in ArgIdx }

\* every value the store holds
StoredValues ==
    { values.singles[c] : c \in DOMAIN values.singles }
       \cup UNION { Elems(values.multiples[c]) : c \in DOMAIN values.multiples }

\* C22: at every step of parse and in the final store, every stored value
\* (a single's value, an element of a multiple's list, a leftover) is an input
\* token without a leading dash; a dash-prefixed token is never consumed as a
\* value, so whenever the inner loop or a single stands before one it is left
\* to the outer loop.
C22_NoStoredValueStartsWithDash ==
    /\ \A v \in StoredValues : v \in InputTokens /\ ~IsOption(v)
    /\ \A a \in SingleAliases : get_single(a) # <<>> => ~IsOption(get_single(a))
    /\ \A a \in MultipleAliases : \A v \in Elems(get_multiple(a)) : ~IsOption(v)
    /\ (pc = "inner" /\ pos < Len(argv) /\ IsOption(argv[pos + 1])) => ~ENABLED InnerPush

\* single "o", command line [--o, a, -h] at the head of the loop after the
\* value a was stored and before -h is taken
C22_Witness ==
    /\ pc = "outer"
    /\ argv = << ProgramName, <<"-", "-", "o">>, <<"a">>, <<"-", "h">> >>
    /\ pos = 3
    /\ SingleAliases = { <<"o">> }
    /\ get_single(<<"o">>) = <<"a">>

\* ----------------------------------------------------------------------- C23
\* the indexes of the tokens the loop has consumed so far
ConsumedIdx == 2..pos

\* the consumed tokens without a leading dash that were assigned to a single
AssignedIdx == { j \in ConsumedIdx : SingleValueIdx(j) }

\* the consumed tokens without a leading dash that were appended to a list
AppendedIdx == { j \in ConsumedIdx : ~IsOption(argv[j]) /\ ~SingleValueIdx(j) }

\* how often the token t occurs in the sequence s
Occurrences(s, t) == Cardinality({ k \in 1..Len(s) : s[k] = t })

RECURSIVE SumOver(_, _)
SumOver(S, f) ==
    IF S = {} THEN 0
    ELSE LET x == CHOOSE y \in S : TRUE IN f[x] + SumOver(S \ { x }, f)

\* how often the token t occurs in all multiple lists, leftovers included
OccurrencesInLists(t) ==
    SumOver(DOMAIN values.multiples,
            [c \in DOMAIN values.multiples |-> Occurrences(values.multiples[c], t)])

\* the total length of all multiple lists, leftovers included
TotalListLength ==
    SumOver(DOMAIN values.multiples,
            [c \in DOMAIN values.multiples |-> Len(values.multiples[c])])

\* C23: token conservation. At every step of parse each consumed token
\* without a leading dash was used exactly once: as the value assigned to a
\* single, or as one element of one multiple list or of the leftovers. So every
\* token occurs in the lists as often as it was consumed outside a single
\* assignment, a single that was assigned holds the last value assigned to it,
\* and at termination the number of tokens without a leading dash is the total
\* length of the lists plus the number of single assignments.
C23_TokenConservation ==
    Parsing =>
      /\ \A t \in InputTokens :
            OccurrencesInLists(t) = Cardinality({ j \in AppendedIdx : argv[j] = t })
      /\ TotalListLength = Cardinality(AppendedIdx)
      /\ \A c \in DOMAIN values.singles :
            \E j \in AssignedIdx :
               /\ config.singles.aliases[OptionName(argv[j - 1])] = c
               /\ values.singles[c] = argv[j]
      /\ \A j \in AssignedIdx :
            config.singles.aliases[OptionName(argv[j - 1])] \in DOMAIN values.singles
      /\ Done => Cardinality({ j \in ArgIdx : ~IsOption(argv[j]) })
                    = TotalListLength + Cardinality(AssignedIdx)

\* multiple "o", command line [a, --o, a]: one a in the leftovers, one in the
\* list of o, none lost and none duplicated
C23_Witness ==
    /\ Done
    /\ argv = << ProgramName, <<"a">>, <<"-", "-", "o">>, <<"a">> >>
    /\ MultipleAliases = { <<>>, <<"o">> }
    /\ FlagAliases = {} /\ SingleAliases = {}
    /\ values.multiples[<<>>] = << <<"a">> >>
    /\ values.multiples[<<"o">>] = << <<"a">> >>

====
